---- MODULE Spec2Model ----
(***************************************************************************)
(* Model of the `hub create` command (src/commands/create.go).             *)
(*                                                                         *)
(* One invocation of create() is a straight-line run through the steps     *)
(*   GitDir -> ResolveName -> ResolveHost -> Lookup -> CreateStep          *)
(*          -> OpenLocalRepo -> Bind -> Output                             *)
(* Any utils.Check(err) with a non-nil error ends the invocation           *)
(* (pc = "aborted").  The hosted service (gateway) outlives an invocation: *)
(* Rerun starts the command again with the same arguments and flags.       *)
(*                                                                         *)
(* Strings that the code inspects (the argument, the directory name, full  *)
(* names) are sequences of one-character strings.                          *)
(***************************************************************************)
EXTENDS Integers, Sequences, FiniteSets, TLC

\* ------------------------------------------------------------------ bounds
MaxLen == 3      \* longest argument / directory name explored
MaxDirLen == 2   \* longest working-directory name explored
MaxRuns == 2     \* invocations of the command in one behaviour

\* ------------------------------------------------------------- input sets
Alphabet == {"a", "/", "-"}
DirAlphabet == {"a", "A", "-"}
Strings == UNION {[1..k -> Alphabet] : k \in 0..MaxLen}
Descriptions == {"", "desc"}
Homepages == {"home"}
HostConfigs == {[Host |-> "github.com", User |-> <<"a">>]}
OtherHost == "ghe.io"
Unrelated == <<"o", "/", "u">>
\* base names git.WorkdirName() may return
DirNames == UNION {[1..k -> DirAlphabet] : k \in 1..MaxDirLen}

VARIABLES
  pc,                     \* position inside create()
  run,                    \* number of the current invocation
  params,                 \* args' parameters: <<>> or <<argument>>
  workdir,                \* name of the working directory
  noop,                   \* args.Noop
  flagCreatePrivate,
  flagCreateDescription,
  flagCreateHomepage,
  newRepoName,            \* local newRepoName
  host,                   \* result of config.DefaultHost()
  desired,                \* the project built at line 110
  project,                \* local project (reassigned at 122 and 135)
  lookupResult,           \* the record gh.Repository returned, NoRepo on error
  repo,                   \* local repo after the lookup block
  newRepo,                \* the record gh.CreateRepository returned (line 133)
  created,                \* CreateRepository returned without error
  origin,                 \* what RemoteByName / Project() returned
  repos,                  \* repositories this command created on the service
  createCalls,            \* gh.CreateRepository calls of this invocation
  lookupCalls,            \* gh.Repository calls of this invocation
  vcsCalls,               \* git calls of this invocation
  before,                 \* commands queued with args.Before
  uiErr,                  \* messages written with ui.Errorln / ui.Errorf
  err,                    \* the error handed to utils.Check, "" if none
  noForward,              \* args.NoForward() was called
  webUrl                  \* URL handed to printBrowseOrCopy

vars == <<pc, run, params, workdir, noop, flagCreatePrivate, flagCreateDescription,
          flagCreateHomepage, newRepoName, host, desired, project,
          lookupResult, repo, newRepo, created, origin, repos, createCalls, lookupCalls, vcsCalls, before,
          uiErr, err, noForward, webUrl>>

\* ------------------------------------------------------------ empty values
NoHost == [Host |-> "", User |-> <<>>]
NoProject == [Owner |-> <<>>, Name |-> <<>>, Host |-> ""]
NoRepo == [ok |-> FALSE, FullName |-> <<>>, Private |-> FALSE]
NoOrigin == [kind |-> "unread", Project |-> NoProject]

\* ---------------------------------------------------------- string helpers
ToLowerChar(c) == IF c = "A" THEN "a" ELSE c
ToUpperChar(c) == IF c = "a" THEN "A" ELSE c
ToLower(s) == [i \in 1..Len(s) |-> ToLowerChar(s[i])]
ToUpper(s) == [i \in 1..Len(s) |-> ToUpperChar(s[i])]

\* strings.Contains(s, "/")
ContainsSlash(s) == \E i \in 1..Len(s) : s[i] = "/"

FirstSlash(s) == CHOOSE i \in 1..Len(s) :
                   s[i] = "/" /\ \A j \in 1..(i - 1) : s[j] # "/"

\* strings.SplitN(s, "/", 2) for a string that contains "/"
SplitN2(s) == <<SubSeq(s, 1, FirstSlash(s) - 1),
                SubSeq(s, FirstSlash(s) + 1, Len(s))>>

\* regexp "^[^-]" matched against s (MatchAnything: the check left out)
MatchAnything(s) == TRUE
MatchNoDash(s) == Len(s) > 0 /\ s[1] # "-"

\* github.SanitizeProjectName: lower-cases and strips disallowed characters
SanitizeProjectName(s) == ToLower(SelectSeq(s, LAMBDA c : c # "/"))

\* ------------------------------------------------- project identity helpers
\* github.NewProject(owner, name, host): a full name given as the owner with
\* no explicit name part is parsed into owner and name
NewProject(owner, name, h) ==
  IF ContainsSlash(owner) /\ name = <<>>
    THEN [Owner |-> SplitN2(owner)[1], Name |-> SplitN2(owner)[2], Host |-> h]
    ELSE [Owner |-> owner, Name |-> name, Host |-> h]

\* an empty owner stands for the account of the configured host
ResolveOwner(o) == IF o = <<>> THEN host.User ELSE o

\* Project.SameAs
SameAs(p, q) ==
  /\ ToLower(ResolveOwner(p.Owner)) = ToLower(ResolveOwner(q.Owner))
  /\ ToLower(p.Name) = ToLower(q.Name)
  /\ p.Host = q.Host

FullName(p) == ResolveOwner(p.Owner) \o <<"/">> \o p.Name

\* Project.GitURL("", "", true): git@HOST:OWNER/NAME.git (Long text, line 45)
GitURL(p) == <<"git@", p.Host, ":">> \o FullName(p) \o <<".git">>

\* Project.WebURL("", "", ""): https://HOST/OWNER/NAME
WebURL(p) == <<"https://", p.Host, "/">> \o FullName(p)

\* ------------------------------------------------------ the hosted service
\* the service answers with its own canonical spelling of a full name
Canonical(full) == {full, ToLower(full), ToUpper(full)}

\* the service holds at most one repository per case-insensitive full name
Exists(full) == \E r \in repos : ToLower(r.FullName) = ToLower(full)

\* records gh.Repository(project) may return: the project under any canonical
\* spelling, a repository this command created earlier, or an unrelated one
LookupRecords(p) ==
  repos \cup
  {[ok |-> TRUE, FullName |-> f, Private |-> b] :
     f \in Canonical(FullName(p)) \cup {Unrelated}, b \in BOOLEAN}

\* what RemoteByName("origin") and originRemote.Project() may yield
OriginOutcomes(p) ==
  {[kind |-> "absent", Project |-> NoProject],
   [kind |-> "unparsable", Project |-> NoProject]} \cup
  {[kind |-> "remote", Project |-> q] :
     q \in {p, desired,
            [p EXCEPT !.Owner = ToLower(@), !.Name = ToLower(@)],
            [p EXCEPT !.Host = OtherHost],
            NewProject(Unrelated, <<>>, p.Host)}}

\* ------------------------------------------------------------ ui messages
ExistingNotice == "Existing repository detected"
OriginWarning == "A git remote named \"origin\" already exists and is set to push to"

\* --------------------------------------------------- decisions of create()
\* Each decision is an operator of its own; the _Xxx operators before it are
\* faulty variants of the same decision, kept to show that the properties
\* below depend on it.
\* line 117: an existing public repository while --private was asked for
VisibilityConflict_Never(r, wantPrivate) == FALSE
VisibilityConflict_AnyExisting(r, wantPrivate) == wantPrivate
VisibilityConflict(r, wantPrivate) == ~r.Private /\ wantPrivate

\* lines 131-132: the create call is made when no record is kept and the
\* invocation is not a dry run
ShouldCreate_IgnoringNoop(r, dryRun) == r = NoRepo
ShouldCreate_IgnoringRecord(r, dryRun) == ~dryRun
ShouldCreate(r, dryRun) == r = NoRepo /\ ~dryRun

\* line 133: the arguments of gh.CreateRepository
CreateArgs_PublicOnly(p, d, h, priv) ==
  [Project |-> p, Description |-> d, Homepage |-> h, Private |-> FALSE]
CreateArgs(p, d, h, priv) ==
  [Project |-> p, Description |-> d, Homepage |-> h, Private |-> priv]

\* line 145: the origin remote does not point at the project
OriginConflict_ParseOnly(o, p) == o.kind = "unparsable"
OriginConflict(o, p) == o.kind = "unparsable" \/ ~SameAs(o.Project, p)

\* lines 149-150: the queued command
RemoteAddCommand_Desired(p) ==
  <<"git", "remote", "add", "-f", "origin", GitURL(desired)>>
RemoteAddCommand(p) == <<"git", "remote", "add", "-f", "origin", GitURL(p)>>

\* ------------------------------------------------------------------- Init
Init ==
  /\ pc = "start"
  /\ run = 1
  \* the directory name is read only when no argument is given
  /\ \/ params = <<>> /\ workdir \in DirNames
     \/ params \in {<<s>> : s \in Strings} /\ workdir = <<"a">>
  /\ noop \in BOOLEAN
  /\ flagCreatePrivate \in BOOLEAN
  /\ flagCreateDescription \in Descriptions
  /\ flagCreateHomepage \in Homepages
  /\ newRepoName = <<>>
  /\ host = NoHost
  /\ desired = NoProject
  /\ project = NoProject
  /\ lookupResult = NoRepo
  /\ repo = NoRepo
  /\ newRepo = NoRepo
  /\ created = FALSE
  /\ origin = NoOrigin
  /\ repos = {}
  /\ createCalls = <<>>
  /\ lookupCalls = 0
  /\ vcsCalls = <<>>
  /\ before = <<>>
  /\ uiErr = <<>>
  /\ err = ""
  /\ noForward = FALSE
  /\ webUrl = <<>>

flags == <<params, workdir, noop, flagCreatePrivate, flagCreateDescription,
           flagCreateHomepage>>

\* utils.Check(e) with a non-nil error: the process exits
Abort(e) == pc' = "aborted" /\ err' = e

\* lines 77-81
GitDir ==
  /\ pc = "start"
  /\ vcsCalls' = Append(vcsCalls, "git.Dir")
  /\ \/ pc' = "resolve" /\ err' = err
     \/ Abort("NotInGitRepository")
  /\ UNCHANGED <<run, flags, newRepoName, host, desired, project,
                 lookupResult, repo, newRepo, created, origin, repos,
                 createCalls, lookupCalls, before,
                 uiErr, noForward, webUrl>>

\* lines 83-95
ResolveName ==
  /\ pc = "resolve"
  /\ IF params = <<>>
       THEN /\ vcsCalls' = Append(vcsCalls, "git.WorkdirName")
            /\ \/ /\ newRepoName' = SanitizeProjectName(workdir)
                  /\ pc' = "host" /\ err' = err
               \/ /\ Abort("WorkdirNameFailed")
                  /\ newRepoName' = newRepoName
       ELSE /\ vcsCalls' = vcsCalls
            /\ IF ~MatchNoDash(params[1])
                 THEN Abort("InvalidArgument") /\ newRepoName' = newRepoName
                 ELSE /\ newRepoName' = params[1]
                      /\ pc' = "host" /\ err' = err
  /\ UNCHANGED <<run, flags, host, desired, project, lookupResult, repo,
                 newRepo, created, origin,
                 repos, createCalls, lookupCalls, before, uiErr, noForward,
                 webUrl>>

\* lines 103-108: owner and name handed to github.NewProject
OwnerOf(name, user) == IF ContainsSlash(name) THEN SplitN2(name)[1] ELSE user
NameOf(name) == IF ContainsSlash(name) THEN SplitN2(name)[2] ELSE name

\* lines 97-111
ResolveHost ==
  /\ pc = "host"
  /\ \/ \E h \in HostConfigs :
          /\ host' = h
          /\ newRepoName' = NameOf(newRepoName)
          /\ project' = NewProject(OwnerOf(newRepoName, h.User),
                                   NameOf(newRepoName), h.Host)
          /\ desired' = project'
          /\ pc' = "lookup" /\ err' = err
     \/ /\ Abort("NoConfiguredHost")
        /\ UNCHANGED <<host, newRepoName, project, desired>>
  /\ UNCHANGED <<run, flags, lookupResult, repo, newRepo, created, origin,
                 repos, createCalls,
                 lookupCalls, vcsCalls, before, uiErr, noForward, webUrl>>

\* lines 113-129
Lookup ==
  /\ pc = "lookup"
  /\ lookupCalls' = lookupCalls + 1
  /\ \/ \* err != nil: not found, or any other failure
        /\ lookupResult' = NoRepo
        /\ repo' = NoRepo
        /\ pc' = "create"
        /\ UNCHANGED <<project, uiErr, err>>
     \/ \E r \in LookupRecords(project) :
          LET foundProject == NewProject(r.FullName, <<>>, project.Host) IN
          /\ lookupResult' = r
          /\ IF SameAs(foundProject, project)
               THEN IF VisibilityConflict(r, flagCreatePrivate)
                      THEN /\ Abort("VisibilityConflict")
                           /\ repo' = r
                           /\ UNCHANGED <<project, uiErr>>
                      ELSE /\ uiErr' = Append(uiErr, ExistingNotice)
                           /\ project' = foundProject
                           /\ repo' = r
                           /\ pc' = "create" /\ err' = err
               ELSE /\ repo' = NoRepo
                    /\ pc' = "create"
                    /\ UNCHANGED <<project, uiErr, err>>
  /\ UNCHANGED <<run, flags, newRepoName, host, desired, newRepo, created,
                 origin, repos, createCalls, vcsCalls, before, noForward,
                 webUrl>>

\* lines 131-137; the repo declared at line 133 is local to the block
CreateStep ==
  /\ pc = "create"
  /\ IF ShouldCreate(repo, noop)
       THEN /\ createCalls' = Append(createCalls,
                 CreateArgs(project, flagCreateDescription,
                            flagCreateHomepage, flagCreatePrivate))
            /\ \/ \E full \in Canonical(FullName(project)) :
                    /\ ~Exists(full)
                    /\ repos' = repos \cup {[ok |-> TRUE, FullName |-> full,
                                             Private |-> flagCreatePrivate]}
                    /\ newRepo' = [ok |-> TRUE, FullName |-> full,
                                    Private |-> flagCreatePrivate]
                    /\ project' = NewProject(full, <<>>, project.Host)
                    /\ created' = TRUE
                    /\ pc' = "local" /\ err' = err
               \/ /\ Abort("CreationFailed")
                  /\ UNCHANGED <<repos, newRepo, project, created>>
       ELSE /\ pc' = "local"
            /\ UNCHANGED <<createCalls, repos, newRepo, project, created, err>>
  /\ UNCHANGED <<run, flags, newRepoName, host, desired, lookupResult, repo,
                 origin, lookupCalls, vcsCalls, before, uiErr, noForward, webUrl>>

\* lines 139-140
OpenLocalRepo ==
  /\ pc = "local"
  /\ vcsCalls' = Append(vcsCalls, "github.LocalRepo")
  /\ \/ pc' = "bind" /\ err' = err
     \/ Abort("LocalRepoFailed")
  /\ UNCHANGED <<run, flags, newRepoName, host, desired, project,
                 lookupResult, repo, newRepo, created, origin, repos,
                 createCalls, lookupCalls, before,
                 uiErr, noForward, webUrl>>

\* lines 142-151
Bind ==
  /\ pc = "bind"
  /\ vcsCalls' = Append(vcsCalls, "RemoteByName")
  /\ \E o \in OriginOutcomes(project) :
       /\ origin' = o
       /\ IF o.kind # "absent"
            THEN /\ uiErr' = IF OriginConflict(o, project)
                               THEN Append(uiErr, OriginWarning)
                               ELSE uiErr
                 /\ before' = before
            ELSE /\ before' = Append(before, RemoteAddCommand(project))
                 /\ uiErr' = uiErr
  /\ pc' = "output"
  /\ UNCHANGED <<run, flags, newRepoName, host, desired, project,
                 lookupResult, repo, newRepo, created, repos, createCalls,
                 lookupCalls, err, noForward,
                 webUrl>>

\* lines 153-155
Output ==
  /\ pc = "output"
  /\ webUrl' = WebURL(project)
  /\ noForward' = TRUE
  /\ pc' = "done"
  /\ UNCHANGED <<run, flags, newRepoName, host, desired, project,
                 lookupResult, repo, newRepo, created, origin, repos,
                 createCalls, lookupCalls, vcsCalls,
                 before, uiErr, err>>

\* the command is run again with the same arguments and flags (cmdCreate.Run)
Rerun ==
  /\ pc \in {"done", "aborted"}
  /\ run < MaxRuns
  /\ run' = run + 1
  /\ pc' = "start"
  /\ newRepoName' = <<>>
  /\ host' = NoHost
  /\ desired' = NoProject
  /\ project' = NoProject
  /\ lookupResult' = NoRepo
  /\ repo' = NoRepo
  /\ newRepo' = NoRepo
  /\ created' = FALSE
  /\ origin' = NoOrigin
  /\ createCalls' = <<>>
  /\ lookupCalls' = 0
  /\ vcsCalls' = <<>>
  /\ before' = <<>>
  /\ uiErr' = <<>>
  /\ err' = ""
  /\ noForward' = FALSE
  /\ webUrl' = <<>>
  /\ UNCHANGED <<flags, repos>>

Next ==
  \/ GitDir
  \/ ResolveName
  \/ ResolveHost
  \/ Lookup
  \/ CreateStep
  \/ OpenLocalRepo
  \/ Bind
  \/ Output
  \/ Rerun

Spec == Init /\ [][Next]_vars

\* ======================================================== properties
\* the project the argument and the host configuration ask for is `desired`;
\* the identity the invocation ends up with:
FinalIdentity ==
  IF created THEN NewProject(newRepo.FullName, <<>>, desired.Host)
  ELSE IF repo.ok THEN NewProject(repo.FullName, <<>>, desired.Host)
  ELSE desired

\* the lookup has answered
LookedUp == lookupCalls = 1

\* the lookup returned a record of the desired project
FoundSame ==
  /\ LookedUp
  /\ lookupResult.ok
  /\ SameAs(NewProject(lookupResult.FullName, <<>>, desired.Host), desired)

\* the lookup failed, or returned a record of another project
FoundNothingUsable == LookedUp /\ ~FoundSame

\* the invocation is past lines 131-137
PastCreate ==
  \/ pc \in {"local", "bind", "output", "done"}
  \/ pc = "aborted" /\ err \in {"CreationFailed", "LocalRepoFailed"}

\* the invocation is past lines 142-151
PastBind == pc \in {"output", "done"}

InvalidArg ==
  /\ params # <<>>
  /\ \/ Len(params[1]) = 0
     \/ params[1][1] = "-"

Warned == \E i \in 1..Len(uiErr) : uiErr[i] = OriginWarning

\* C1: an invocation that ended in a fatal error has created no repository on
\* the service and has queued no remote-add command.
C1_AbortLeavesNoMutation ==
  pc = "aborted" => (~created /\ before = <<>>)

\* C2: a lookup that returns a public record of the desired project while a
\* private repository is requested ends the invocation with the visibility
\* conflict, with no create call and no queued command, dry run or not.
C2_VisibilityConflictIsFatal ==
  (FoundSame /\ ~lookupResult.Private /\ flagCreatePrivate)
    => /\ pc = "aborted"
       /\ err = "VisibilityConflict"
       /\ createCalls = <<>>
       /\ before = <<>>

C2_Witness ==
  /\ FoundSame /\ ~lookupResult.Private /\ flagCreatePrivate
  /\ noop
  /\ pc = "aborted"

\* C3: in a dry run with no usable existing repository no create call is
\* made, the final identity is the desired one and nothing was created.
C3_DryRunCreatesNothing ==
  (noop /\ FoundNothingUsable /\ pc # "create")
    => /\ PastCreate
       /\ createCalls = <<>>
       /\ project = desired
       /\ ~created

C3_Witness ==
  /\ noop /\ FoundNothingUsable /\ lookupResult.ok
  /\ pc = "done"
  /\ Len(before) = 1

\* C4 (as claimed): once an earlier invocation has created the repository,
\* a later invocation with the same arguments makes no create call.
C4_RerunNeverCreates ==
  [][(run > 1 /\ repos # {} /\ pc = "create") => createCalls' = <<>>]_vars

\* C4 (amended): a later invocation whose lookup returns the record of the
\* repository an earlier invocation created takes the reuse branch: no
\* visibility conflict, no create call, created = false.
C4_RerunReusesFoundRepository ==
  (run > 1 /\ LookedUp /\ lookupResult \in repos)
    => /\ err # "VisibilityConflict"
       /\ repo = lookupResult
       /\ createCalls = <<>>
       /\ ~created
       /\ project = NewProject(lookupResult.FullName, <<>>, desired.Host)

C4_Witness ==
  /\ run > 1 /\ LookedUp /\ lookupResult \in repos
  /\ flagCreatePrivate
  /\ project # desired
  /\ pc = "done"

\* C5 (as claimed): the abort with InvalidArgument happens before any network
\* call and before any version-control call.
C5_InvalidArgumentBeforeAnyCall ==
  (pc = "aborted" /\ err = "InvalidArgument")
    => (vcsCalls = <<>> /\ lookupCalls = 0 /\ createCalls = <<>>)

\* C5 (amended): an explicit argument that is empty or starts with "-" ends
\* the invocation, with InvalidArgument unless the git-directory check had
\* already failed, before any network call and with no version-control call
\* other than that git-directory check.
C5_InvalidArgumentAborts ==
  (InvalidArg /\ pc \notin {"start", "resolve"})
    => /\ pc = "aborted"
       /\ err \in {"InvalidArgument", "NotInGitRepository"}
       /\ vcsCalls = <<"git.Dir">>
       /\ lookupCalls = 0
       /\ createCalls = <<>>
       /\ host = NoHost

C5_Witness ==
  /\ InvalidArg /\ params[1] = <<>>
  /\ pc = "aborted" /\ err = "InvalidArgument"

\* C6: the name handed to project-identity construction contains no "/".
C6_NameHasNoSlash ==
  desired # NoProject => ~ContainsSlash(newRepoName)

\* C7: an origin remote that cannot be parsed or points at another project
\* yields the warning, no queued command, no abort, and the web URL of the
\* final identity.
C7_ConflictingOriginOnlyWarns ==
  (/\ origin.kind \in {"unparsable", "remote"}
   /\ origin.kind = "remote" => ~SameAs(origin.Project, FinalIdentity))
    => /\ PastBind
       /\ Warned
       /\ before = <<>>
       /\ pc = "done" => webUrl = WebURL(FinalIdentity)

C7_Witness ==
  /\ origin.kind = "remote"
  /\ ~SameAs(origin.Project, FinalIdentity)
  /\ origin.Project.Host = FinalIdentity.Host
  /\ created
  /\ pc = "done"

\* C8: with no origin remote exactly one command
\* git remote add -f origin <url of the final identity> is queued, dry run
\* or not; with a matching origin nothing is queued and nothing is warned.
C8_AbsentOriginQueuesRemoteAdd ==
  /\ origin.kind = "absent"
       => /\ PastBind
          /\ before = <<<<"git", "remote", "add", "-f", "origin",
                          GitURL(FinalIdentity)>>>>
  /\ (origin.kind = "remote" /\ SameAs(origin.Project, FinalIdentity))
       => (before = <<>> /\ ~Warned)
  /\ ~PastBind => before = <<>>

C8_Witness ==
  /\ origin.kind = "absent"
  /\ created
  /\ FinalIdentity # desired
  /\ Len(before) = 1
  /\ pc = "done"

\* C9: an invocation calls create at most once, and not at all on the reuse
\* branch, where the final identity is built from the record's full name and
\* created is false.
C9_ReuseNeverCreates ==
  /\ Len(createCalls) <= 1
  /\ (FoundSame /\ err # "VisibilityConflict")
       => /\ createCalls = <<>>
          /\ ~created
          /\ project = NewProject(lookupResult.FullName, <<>>, desired.Host)

C9_Witness ==
  /\ FoundSame
  /\ ~noop
  /\ project # desired
  /\ pc = "done"

\* C10: a failed lookup and a lookup that returns another project are treated
\* alike: no lookup error is raised, and outside a dry run create is called
\* exactly once with the desired identity, the description, the homepage and
\* the private flag.
C10_UnusableLookupCreates ==
  (~noop /\ FoundNothingUsable)
    => /\ repo = NoRepo
       /\ pc = "create" => (createCalls = <<>> /\ err = "")
       /\ pc # "create" =>
            /\ PastCreate
            /\ createCalls =
                 <<[Project |-> desired,
                    Description |-> flagCreateDescription,
                    Homepage |-> flagCreateHomepage,
                    Private |-> flagCreatePrivate]>>

C10_Witness ==
  /\ ~noop /\ LookedUp /\ ~lookupResult.ok
  /\ flagCreatePrivate /\ flagCreateDescription # ""
  /\ created
  /\ pc = "done"

====
